---- MODULE Spec2Model ----
(***************************************************************************)
(* The YouTube download form of the indicators dashboard                   *)
(* (src/frontend/youtube.js): the submit handler, the two display slots    *)
(* it writes (status and result area) and the requests it has in flight.   *)
(* The dashboard page (src/frontend/app.js and its later version) has its   *)
(* own specification, SpecDashboard.                                       *)
(*                                                                         *)
(* Text that the code inspects character by character (the input value,    *)
(* which is trimmed, and download_url, which is tested for a prefix and    *)
(* concatenated) is a sequence of one-character strings.  Text that the    *)
(* code only copies (status messages, detail, video_id, filename) is a     *)
(* string.                                                                 *)
(***************************************************************************)
EXTENDS Naturals, Sequences, FiniteSets

VARIABLES
    hostname,       \* window.location.hostname, fixed for the life of the page
    inputValue,     \* #video-url .value at the last submit event
    status,         \* #download-status: [message, type]
    result,         \* #download-result innerHTML: the sequence of cards in it
    calls,          \* the handleSubmit invocations that reached fetch
    requests,       \* the POSTs sent to /api/youtube/download, in order
    lastEvent,      \* history: the step that led to this state
    nValid,         \* history: submissions whose input was not blank
    raced,          \* history: the calls that overlapped another call
    dashboard       \* the dashboard page: loadDashboardData and #dashboard-message

vars == <<hostname, inputValue, status, result, calls, requests,
          lastEvent, nValid, raced, dashboard>>

-----------------------------------------------------------------------------
(* Bounds *)

MaxCalls == 2       \* requests issued in one behaviour

-----------------------------------------------------------------------------
(* Text *)

Whitespace == {" ", "\t", "\n", "\r"}

\* The values the URL field holds when the form is submitted.
InputValues ==
    {<<>>, <<" ">>, <<"\t", " ">>, <<"a">>, <<" ", "a", "\n">>, <<"a", " ", "a">>}

\* A value typed by the user is blank when it has nothing but white space.
IsBlank(s) == \A i \in 1..Len(s) : s[i] \in Whitespace

RECURSIVE trimStart(_)
trimStart(s) ==
    IF s # <<>> /\ Head(s) \in Whitespace THEN trimStart(Tail(s)) ELSE s

RECURSIVE trimEnd(_)
trimEnd(s) ==
    IF s # <<>> /\ s[Len(s)] \in Whitespace
    THEN trimEnd(SubSeq(s, 1, Len(s) - 1))
    ELSE s

trimIdentity(s) == s

\* String.prototype.trim
trim(s) == trimEnd(trimStart(s))

\* String.prototype.startsWith
startsWith(s, prefix) ==
    /\ Len(s) >= Len(prefix)
    /\ SubSeq(s, 1, Len(prefix)) = prefix

-----------------------------------------------------------------------------
(* Backend origin *)

LOCAL_HOSTNAMES == {"localhost", "127.0.0.1", "0.0.0.0"}

\* The hostnames the page is served from in the behaviours explored.
Hostnames == {"127.0.0.1", "rbnjlb.github.io"}

LocalOrigin ==
    <<"h","t","t","p",":","/","/","l","o","c","a","l","h","o","s","t",
      ":","8","0","0","0">>

ProductionOrigin ==
    <<"h","t","t","p","s",":","/","/","i","n","d","i","c","a","t","o","r","s",
      "-","d","a","s","h","b","o","a","r","d","-","h","e","1","e",".",
      "o","n","r","e","n","d","e","r",".","c","o","m">>

BACKEND_URL ==
    IF hostname \in LOCAL_HOSTNAMES THEN LocalOrigin ELSE ProductionOrigin

-----------------------------------------------------------------------------
(* Response bodies *)

RelativeUrl == <<"/","f","i","l","e","s","/","a","b","c",".","m","p","4">>

AbsoluteUrl ==
    <<"h","t","t","p","s",":","/","/","c","d","n",".","t","e","s","t",
      "/","a",".","m","p","4">>

\* A relative path that happens to begin with the letters h, t, t, p.
HttpPathUrl == <<"h","t","t","p","d","o","c","s","/","a",".","m","p","4">>

DownloadUrls == {RelativeUrl, AbsoluteUrl, HttpPathUrl}

Details == {"", "quota exceeded"}

Body(kind, detailKind, detail, hasUrl, url) ==
    [kind |-> kind, detailKind |-> detailKind, detail |-> detail,
     hasUrl |-> hasUrl, download_url |-> url,
     video_id |-> "abc", filename |-> "abc.mp4"]

NoBody == Body("none", "absent", "", FALSE, <<>>)

\* A body that is not JSON (an HTML error page, an empty body).
InvalidBody == Body("invalid", "absent", "", FALSE, <<>>)

\* The JSON text null.
NullBody == Body("null", "absent", "", FALSE, <<>>)

\* The JSON text {}.
EmptyObject == Body("object", "absent", "", FALSE, <<>>)

Bodies ==
    {InvalidBody, NullBody, EmptyObject}
    \cup {Body("object", "string", d, FALSE, <<>>) : d \in Details}
    \cup {Body("object", k, "", FALSE, <<>>) : k \in {"list", "emptylist"}}
    \cup {Body("object", "absent", "", TRUE, u) : u \in DownloadUrls}

-----------------------------------------------------------------------------
(* The page *)

\* The elements the page gives the script; getElementById finds these.
PageElements == {"download-form", "video-url", "download-status", "download-result"}

getElementById(id) == id \in PageElements

ValidationMessage == "Please enter a valid YouTube URL."

\* The first character after "Processing" is a horizontal ellipsis in the source.
PendingMessage == "Processing... this can take a minute for long videos."

SuccessMessage == "Success! Your video is ready."

DownloadFailed == "Download failed"

SomethingWentWrong == "Something went wrong."

\* The messages of the exceptions the runtime raises.  Their wording is the
\* engine's; only that each is a non-empty text of its own matters here.
JsonSyntaxError == "Unexpected token < in JSON at position 0"

NullDetailTypeError == "Cannot read properties of null (reading 'detail')"

StartsWithTypeError == "Cannot read properties of undefined (reading 'startsWith')"

\* fetch rejects with an exception whose message is the engine's; an exception
\* may also carry no message at all.
NetworkErrorMessages == {"Failed to fetch", ""}

setStatusInfo(old, message, type) ==
    IF ~getElementById("download-status") THEN old
    ELSE [message |-> message, type |-> "info"]

setStatus(old, message, type) ==
    IF ~getElementById("download-status") THEN old
    ELSE [message |-> message, type |-> type]

HttpPrefix == <<"h","t","t","p">>

downloadHrefAlwaysPrefixed(data) == BACKEND_URL \o data.download_url

downloadHref(data) ==
    IF startsWith(data.download_url, HttpPrefix)
    THEN data.download_url
    ELSE BACKEND_URL \o data.download_url

Card(data) ==
    [video_id |-> data.video_id, href |-> downloadHref(data),
     filename |-> data.filename]

\* renderResult(data) raises a TypeError at data.download_url.startsWith when
\* data is an object without download_url; nothing has been written by then.
renderThrows(data) ==
    /\ getElementById("download-result")
    /\ data.kind # "null"
    /\ ~data.hasUrl

renderResultAppends(old, data) ==
    IF ~getElementById("download-result") THEN old
    ELSE IF data.kind = "null" THEN <<>>
    ELSE Append(old, Card(data))

renderResultKeepsOnNull(old, data) ==
    IF ~getElementById("download-result") THEN old
    ELSE IF data.kind = "null" THEN old
    ELSE <<Card(data)>>

\* renderResult(data), for a data it does not throw on; null is renderResult(null).
renderResult(old, data) ==
    IF ~getElementById("download-result") THEN old
    ELSE IF data.kind = "null" THEN <<>>
    ELSE <<Card(data)>>

\* String(error.detail), as new Error(message) stores it.
detailText(error) ==
    CASE error.detailKind = "string" -> error.detail
      [] error.detailKind = "list" -> "[object Object]"
      [] OTHER -> ""

\* error.detail is truthy.
detailTruthy(error) ==
    \/ error.detailKind = "string" /\ error.detail # ""
    \/ error.detailKind \in {"list", "emptylist"}

nonOkMessageGeneric(body) ==
    LET error == IF body.kind = "invalid" THEN EmptyObject ELSE body
    IN  IF error.kind = "null" THEN NullDetailTypeError ELSE DownloadFailed

\* The message of the exception a non-2xx response ends in: the Error thrown
\* with error.detail || "Download failed", or the TypeError of reading .detail
\* of null.
nonOkMessage(body) ==
    LET error == IF body.kind = "invalid" THEN EmptyObject ELSE body
    IN  IF error.kind = "null" THEN NullDetailTypeError
        ELSE IF detailTruthy(error) THEN detailText(error)
        ELSE DownloadFailed

catchErrorNoFallback(old, message) == setStatus(old, message, "error")

\* The catch block.
catchError(old, message) ==
    setStatus(old, IF message # "" THEN message ELSE SomethingWentWrong, "error")

\* processBody with a guard that drops a response once the status has moved on.
processBodyFirstWins(st, res, ok, body) ==
    IF st.type # "pending" THEN [status |-> st, result |-> res]
    ELSE IF ~ok
    THEN [status |-> catchError(st, nonOkMessage(body)), result |-> res]
    ELSE IF body.kind = "invalid"
    THEN [status |-> catchError(st, JsonSyntaxError), result |-> res]
    ELSE LET st1 == setStatus(st, SuccessMessage, "success")
         IN  IF renderThrows(body)
             THEN [status |-> catchError(st1, StartsWithTypeError), result |-> res]
             ELSE [status |-> st1, result |-> renderResult(res, body)]

\* processBody with a catch block that also empties the result area.
processBodyClearsOnError(st, res, ok, body) ==
    IF ~ok
    THEN [status |-> catchError(st, nonOkMessage(body)), result |-> <<>>]
    ELSE IF body.kind = "invalid"
    THEN [status |-> catchError(st, JsonSyntaxError), result |-> <<>>]
    ELSE LET st1 == setStatus(st, SuccessMessage, "success")
         IN  IF renderThrows(body)
             THEN [status |-> catchError(st1, StartsWithTypeError), result |-> <<>>]
             ELSE [status |-> st1, result |-> renderResult(res, body)]

\* What the handler does with a settled response body: the two slots after it.
processBody(st, res, ok, body) ==
    IF ~ok
    THEN [status |-> catchError(st, nonOkMessage(body)), result |-> res]
    ELSE IF body.kind = "invalid"
    THEN [status |-> catchError(st, JsonSyntaxError), result |-> res]
    ELSE LET st1 == setStatus(st, SuccessMessage, "success")
         IN  IF renderThrows(body)
             THEN [status |-> catchError(st1, StartsWithTypeError), result |-> res]
             ELSE [status |-> st1, result |-> renderResult(res, body)]

-----------------------------------------------------------------------------
(* The dashboard page: loadDashboardData, in the two versions of the script *)

\* src/frontend/app.js, and the first script of src/unnamed/part_001.
DashboardScripts == {"app.js", "part_001"}

\* BACKEND_URL of the dashboard scripts: one origin, whatever the hostname.
DashboardBackendUrl == ProductionOrigin

DashboardHostnames == LOCAL_HOSTNAMES \cup {"rbnjlb.github.io"}

HelloPath == <<"/","a","p","i","/","h","e","l","l","o">>

WeatherPath == <<"/","a","p","i","/","w","e","a","t","h","e","r">>

\* A body of /api/hello: not JSON, null, {} or {"message": ...}.
HelloBody(kind, hasMessage, message) ==
    [kind |-> kind, hasMessage |-> hasMessage, message |-> message]

NoHello == HelloBody("none", FALSE, "")

HelloBodies ==
    {HelloBody("invalid", FALSE, ""), HelloBody("null", FALSE, ""),
     HelloBody("object", FALSE, ""),
     HelloBody("object", TRUE, "Hello from the backend")}

\* A body of /api/weather: not JSON, null, or the object with the five fields.
WeatherBodyKinds == {"invalid", "null", "object"}

\* The outcome of the weather request so far: nothing, a rejected fetch, or a
\* response with its ok flag and, once read, the kind of its body.
Weather(kind, ok, body) == [kind |-> kind, ok |-> ok, body |-> body]

NoWeather == Weather("none", FALSE, "none")

GreetingFailed == "Greeting request failed with 500"

NullMessageTypeError == "Cannot read properties of null (reading 'message')"

DefaultGreeting == "Indicators are on the way!"

\* #dashboard-message: as the page has it, the greeting with the weather
\* details or the placeholder, or the error block.
Display(kind, message, weather) ==
    [kind |-> kind, message |-> message, weather |-> weather]

ErrorBlock(message) == Display("error", message, "none")

\* `${helloData.message}` in app.js, `${helloData.message ?? "..."}` in part_001.
greetingText(script, helloData) ==
    IF helloData.hasMessage THEN helloData.message
    ELSE IF script = "app.js" THEN "undefined"
    ELSE DefaultGreeting

\* The assignment of the greeting markup.  Reading helloData.message of null
\* raises a TypeError that ends in the outer catch block (in app.js through
\* the inner catch block, whose markup reads it again).
showGreeting(d, weather) ==
    IF d.helloData.kind = "null"
    THEN ErrorBlock(NullMessageTypeError)
    ELSE Display("greeting", greetingText(d.script, d.helloData), weather)

weatherUnavailableIsFatal(d) == ErrorBlock("Failed to fetch")

\* The weather is not there (non-2xx, rejected fetch, body that cannot be
\* read): the else branch and the inner catch block.
weatherUnavailable(d) == showGreeting(d, "placeholder")

NoDashboard ==
    [script |-> "none", pc |-> "absent", helloData |-> NoHello,
     helloOk |-> FALSE, weather |-> NoWeather,
     display |-> Display("initial", "", "none"), gets |-> <<>>]

\* DOMContentLoaded: loadDashboardData runs to its first await.
loadDashboardData ==
    /\ dashboard.pc = "loading"
    /\ dashboard' = [dashboard EXCEPT
            !.pc = "hello",
            !.gets = Append(@, [origin |-> DashboardBackendUrl, path |-> HelloPath])]
    /\ UNCHANGED <<hostname, inputValue, status, result, calls, requests,
                   lastEvent, nValid, raced>>

\* fetch of /api/hello resolves.  part_001 throws on a non-2xx response;
\* app.js reads the body whatever the status.
helloResolves(ok) ==
    /\ dashboard.pc = "hello"
    /\ dashboard' =
         IF dashboard.script = "part_001" /\ ~ok
         THEN [dashboard EXCEPT !.pc = "done", !.helloOk = ok,
                                !.display = ErrorBlock(GreetingFailed)]
         ELSE [dashboard EXCEPT !.pc = "helloJson", !.helloOk = ok]
    /\ UNCHANGED <<hostname, inputValue, status, result, calls, requests,
                   lastEvent, nValid, raced>>

\* fetch of /api/hello rejects: the outer catch block.
helloRejects(message) ==
    /\ dashboard.pc = "hello"
    /\ dashboard' = [dashboard EXCEPT !.pc = "done",
                                      !.display = ErrorBlock(message)]
    /\ UNCHANGED <<hostname, inputValue, status, result, calls, requests,
                   lastEvent, nValid, raced>>

\* helloResponse.json() settles: a SyntaxError ends in the outer catch block,
\* a parsed body is kept and /api/weather is fetched.
helloJsonSettles(body) ==
    /\ dashboard.pc = "helloJson"
    /\ dashboard' =
         IF body.kind = "invalid"
         THEN [dashboard EXCEPT !.pc = "done", !.helloData = body,
                                !.display = ErrorBlock(JsonSyntaxError)]
         ELSE [dashboard EXCEPT
                 !.pc = "weather", !.helloData = body,
                 !.gets = Append(@, [origin |-> DashboardBackendUrl,
                                     path |-> WeatherPath])]
    /\ UNCHANGED <<hostname, inputValue, status, result, calls, requests,
                   lastEvent, nValid, raced>>

\* fetch of /api/weather resolves: a 2xx response has its body read, any
\* other leaves the placeholder.
weatherResolves(ok) ==
    /\ dashboard.pc = "weather"
    /\ dashboard' =
         IF ok
         THEN [dashboard EXCEPT !.pc = "weatherJson",
                                !.weather = Weather("http", TRUE, "none")]
         ELSE [dashboard EXCEPT !.pc = "done",
                                !.weather = Weather("http", FALSE, "none"),
                                !.display = weatherUnavailable(dashboard)]
    /\ UNCHANGED <<hostname, inputValue, status, result, calls, requests,
                   lastEvent, nValid, raced>>

\* fetch of /api/weather rejects: the inner catch block.
weatherRejects ==
    /\ dashboard.pc = "weather"
    /\ dashboard' = [dashboard EXCEPT !.pc = "done",
                                      !.weather = Weather("network", FALSE, "none"),
                                      !.display = weatherUnavailable(dashboard)]
    /\ UNCHANGED <<hostname, inputValue, status, result, calls, requests,
                   lastEvent, nValid, raced>>

\* weatherResponse.json() settles: the details are shown for an object; a
\* SyntaxError, or the TypeError of reading a field of null, ends in the
\* inner catch block.
weatherJsonSettles(kind) ==
    /\ dashboard.pc = "weatherJson"
    /\ dashboard' = [dashboard EXCEPT
            !.pc = "done",
            !.weather = Weather("http", TRUE, kind),
            !.display = IF kind = "object"
                        THEN showGreeting(dashboard, "details")
                        ELSE weatherUnavailable(dashboard)]
    /\ UNCHANGED <<hostname, inputValue, status, result, calls, requests,
                   lastEvent, nValid, raced>>

-----------------------------------------------------------------------------
(* State *)

CallIds == 1..Len(calls)

Pending == {i \in CallIds : calls[i].pc # "done"}

\* A step: its kind ("load", "submit", "headers", "network", "body"), the call
\* it belongs to and, for a step that processes the outcome of a request, the
\* outcome: response.ok and the body, or the message of fetch's exception.
Event(kind, id, ok, body, message) ==
    [kind |-> kind, id |-> id, ok |-> ok, body |-> body, message |-> message]

Init ==
    /\ hostname \in Hostnames
    /\ inputValue = <<>>
    /\ status = [message |-> "", type |-> "info"]
    /\ result = <<>>
    /\ calls = <<>>
    /\ requests = <<>>
    /\ lastEvent = Event("load", 0, FALSE, NoBody, "")
    /\ nValid = 0
    /\ raced = {}
    /\ dashboard = NoDashboard

\* The submit event, with v in the URL field: handleSubmit up to its first
\* await.
handleSubmit(v) ==
    /\ inputValue' = v
    /\ lastEvent' = Event("submit", 0, FALSE, NoBody, "")
    /\ nValid' = IF IsBlank(v) THEN nValid ELSE nValid + 1
    /\ UNCHANGED <<dashboard, hostname>>
    /\ IF ~getElementById("video-url")
       THEN UNCHANGED <<status, result, calls, requests, raced>>
       ELSE LET url == trim(v)
            IN  IF url = <<>>
                THEN /\ status' = setStatus(status, ValidationMessage, "error")
                     /\ UNCHANGED <<result, calls, requests, raced>>
                ELSE /\ Len(calls) < MaxCalls
                     /\ status' = setStatus(status, PendingMessage, "pending")
                     /\ result' = renderResult(result, NullBody)
                     /\ requests' = Append(requests, [url |-> url])
                     /\ calls' = Append(calls, [pc |-> "fetch", ok |-> FALSE])
                     /\ raced' = IF Pending = {} THEN raced
                                 ELSE raced \cup Pending \cup {Len(calls) + 1}

\* fetch resolves with a response: the handler tests response.ok and awaits
\* response.json().
fetchResolves(i, ok) ==
    /\ calls[i].pc = "fetch"
    /\ calls' = [calls EXCEPT ![i] = [pc |-> "json", ok |-> ok]]
    /\ lastEvent' = Event("headers", i, ok, NoBody, "")
    /\ UNCHANGED <<dashboard, hostname, inputValue, status, result, requests, nValid, raced>>

\* fetchRejects with a retry: the failed request is sent again.
fetchRejectsRetries(i, message) ==
    /\ calls[i].pc = "fetch"
    /\ Len(requests) <= MaxCalls
    /\ requests' = Append(requests, requests[i])
    /\ status' = catchError(status, message)
    /\ lastEvent' = Event("network", i, FALSE, NoBody, message)
    /\ UNCHANGED <<dashboard, hostname, inputValue, result, calls, nValid, raced>>

\* fetch rejects (network failure): the catch block runs.
fetchRejects(i, message) ==
    /\ calls[i].pc = "fetch"
    /\ calls' = [calls EXCEPT ![i].pc = "done"]
    /\ status' = catchError(status, message)
    /\ lastEvent' = Event("network", i, FALSE, NoBody, message)
    /\ UNCHANGED <<dashboard, hostname, inputValue, result, requests, nValid, raced>>

\* response.json() settles, with the parsed body or a SyntaxError: the rest
\* of the handler runs.
jsonSettles(i, body) ==
    /\ calls[i].pc = "json"
    /\ calls' = [calls EXCEPT ![i].pc = "done"]
    /\ LET after == processBody(status, result, calls[i].ok, body)
       IN  /\ status' = after.status
           /\ result' = after.result
    /\ lastEvent' = Event("body", i, calls[i].ok, body, "")
    /\ UNCHANGED <<dashboard, hostname, inputValue, requests, nValid, raced>>

Next ==
    \/ \E v \in InputValues : handleSubmit(v)
    \/ \E i \in CallIds, ok \in BOOLEAN : fetchResolves(i, ok)
    \/ \E i \in CallIds, m \in NetworkErrorMessages : fetchRejects(i, m)
    \/ \E i \in CallIds, b \in Bodies : jsonSettles(i, b)

Spec == Init /\ [][Next]_vars

\* The dashboard page: the download form is not on it.
InitDashboard ==
    /\ hostname \in DashboardHostnames
    /\ inputValue = <<>>
    /\ status = [message |-> "", type |-> "info"]
    /\ result = <<>>
    /\ calls = <<>>
    /\ requests = <<>>
    /\ lastEvent = Event("load", 0, FALSE, NoBody, "")
    /\ nValid = 0
    /\ raced = {}
    /\ \E script \in DashboardScripts :
          dashboard = [NoDashboard EXCEPT !.script = script, !.pc = "loading"]

NextDashboard ==
    \/ loadDashboardData
    \/ \E ok \in BOOLEAN : helloResolves(ok)
    \/ \E m \in NetworkErrorMessages : helloRejects(m)
    \/ \E b \in HelloBodies : helloJsonSettles(b)
    \/ \E ok \in BOOLEAN : weatherResolves(ok)
    \/ weatherRejects
    \/ \E k \in WeatherBodyKinds : weatherJsonSettles(k)

SpecDashboard == InitDashboard /\ [][NextDashboard]_vars

-----------------------------------------------------------------------------
(* Properties *)

\* The step that led to this state processed the outcome of a request.
Processed == lastEvent.kind \in {"network", "body"}

\* The step that led to this state was a submission of the value v = inputValue.
Submitted == lastEvent.kind = "submit"

\* C1: a submission whose input value is empty or only white space issues no
\* request and sets the status to the validation error, whatever is in flight.
C1_BlankSubmissionRejected ==
    [][(Submitted' /\ IsBlank(inputValue'))
         => /\ requests' = requests
            /\ calls' = calls
            /\ status' = [message |-> "Please enter a valid YouTube URL.",
                          type |-> "error"]]_vars

\* A white-space-only value was rejected while a request was in flight.
C1_Witness ==
    /\ Submitted
    /\ inputValue = <<"\t", " ">>
    /\ Pending # {}
    /\ status = [message |-> "Please enter a valid YouTube URL.", type |-> "error"]

\* The state was reached by processing the last outstanding response of calls
\* that overlapped.
RaceSettled ==
    /\ Processed
    /\ lastEvent.id \in raced
    /\ Pending = {}

\* The two slots as the outcome in event e leaves them when its request is the
\* only one: from the pending status and the emptied result area of its own
\* submission.
Alone(e) ==
    LET st == [message |-> PendingMessage, type |-> "pending"]
    IN  IF e.kind = "network"
        THEN [status |-> catchError(st, e.message), result |-> <<>>]
        ELSE processBody(st, <<>>, e.ok, e.body)

\* The outcome in event e writes the result area (renders a card or clears).
WritesResult(e) ==
    /\ e.kind = "body"
    /\ e.ok
    /\ e.body.kind # "invalid"
    /\ ~renderThrows(e.body)

\* C2 as stated: once overlapping requests have all been processed, status and
\* result area together are what the response processed last determines.
C2_LastResponseDeterminesAll ==
    RaceSettled =>
        /\ status = Alone(lastEvent).status
        /\ result = Alone(lastEvent).result

\* C2 as amended: the status is the last processed response's; the result
\* area is that response's only if it wrote one, and otherwise is what the
\* responses processed before it left.
C2_LastWritePerSlot ==
    [][RaceSettled'
         => /\ status' = Alone(lastEvent').status
            /\ result' = IF WritesResult(lastEvent')
                         THEN Alone(lastEvent').result
                         ELSE result]_vars

\* Two overlapping requests: the first succeeded, the second failed last, and
\* the first one's card is still shown beside the second one's error.
C2_Witness ==
    /\ RaceSettled
    /\ lastEvent.id = 2
    /\ ~lastEvent.ok
    /\ status.type = "error"
    /\ Len(result) = 1

\* C3: the result area never shows more than one DownloadResult, and every
\* submission of a non-blank value empties it in the step that issues the request.
C3_AtMostOneResult ==
    /\ [](Len(result) <= 1)
    /\ [][(Submitted' /\ ~IsBlank(inputValue'))
            => /\ result' = <<>>
               /\ Len(requests') = Len(requests) + 1]_vars

\* A second request was issued after the first one's 2xx response had been
\* processed, and the result area is empty.
C3_Witness ==
    /\ Submitted
    /\ ~IsBlank(inputValue)
    /\ Len(requests) = 2
    /\ calls[1].pc = "done"
    /\ calls[1].ok
    /\ calls[2].pc = "fetch"
    /\ result = <<>>

\* The step that led to this state processed the body of a non-2xx response.
NonOkProcessed == lastEvent.kind = "body" /\ ~lastEvent.ok

\* C4 as stated: a non-2xx response whose body is JSON with a `detail` string
\* sets the status to that string, type error, and renders no result.
C4_DetailShownVerbatim ==
    [][(NonOkProcessed' /\ lastEvent'.body.detailKind = "string")
         => /\ status' = [message |-> lastEvent'.body.detail, type |-> "error"]
            /\ result' = result]_vars

\* C4 as amended: the same, for a `detail` string that is not empty.
C4_NonEmptyDetailShownVerbatim ==
    [][(/\ NonOkProcessed'
        /\ lastEvent'.body.detailKind = "string"
        /\ lastEvent'.body.detail # "")
         => /\ status' = [message |-> lastEvent'.body.detail, type |-> "error"]
            /\ result' = result]_vars

\* A non-2xx response with {"detail": "quota exceeded"} has been processed.
C4_Witness ==
    /\ NonOkProcessed
    /\ lastEvent.body.detailKind = "string"
    /\ lastEvent.body.detail = "quota exceeded"
    /\ status = [message |-> "quota exceeded", type |-> "error"]

\* C5: a non-2xx response whose body is not JSON, or is JSON without a
\* `detail` field, sets the status to "Download failed", type error.
C5_GenericDownloadFailed ==
    (/\ NonOkProcessed
     /\ \/ lastEvent.body.kind = "invalid"
        \/ lastEvent.body.detailKind = "absent")
      => status = [message |-> "Download failed", type |-> "error"]

\* The link target C6 states for a download_url: the url itself when it begins
\* with http:// or https://, and the backend origin followed by the url otherwise.
HttpScheme == <<"h","t","t","p",":","/","/">>

HttpsScheme == <<"h","t","t","p","s",":","/","/">>

SchemeTarget(url) ==
    IF startsWith(url, HttpScheme) \/ startsWith(url, HttpsScheme)
    THEN url
    ELSE BACKEND_URL \o url

\* The step that led to this state rendered the DownloadResult of a response.
Rendered ==
    /\ lastEvent.kind = "body"
    /\ lastEvent.ok
    /\ lastEvent.body.kind = "object"
    /\ lastEvent.body.hasUrl

\* C6 as stated: the rendered link target is download_url unchanged when it
\* begins with http:// or https://, and the backend origin followed by
\* download_url otherwise.
C6_SchemeDecidesLink ==
    Rendered =>
        /\ Len(result) = 1
        /\ result[1].href = SchemeTarget(lastEvent.body.download_url)

\* C6 as amended: the rendered link target is download_url unchanged when it
\* begins with the four characters "http", and the backend origin followed by
\* download_url otherwise.
C6_HttpPrefixDecidesLink ==
    Rendered =>
        /\ Len(result) = 1
        /\ result[1].href =
             IF /\ Len(lastEvent.body.download_url) >= 4
                /\ SubSeq(lastEvent.body.download_url, 1, 4) = <<"h","t","t","p">>
             THEN lastEvent.body.download_url
             ELSE BACKEND_URL \o lastEvent.body.download_url

\* "/files/abc.mp4" has been rendered behind the origin, on a page whose
\* origin is the production one.
C6_Witness ==
    /\ Rendered
    /\ hostname \notin LOCAL_HOSTNAMES
    /\ lastEvent.body.download_url = RelativeUrl
    /\ Len(result[1].href) = Len(ProductionOrigin) + Len(RelativeUrl)
    /\ SubSeq(result[1].href, Len(ProductionOrigin) + 1, Len(result[1].href))
         = <<"/","f","i","l","e","s","/","a","b","c",".","m","p","4">>

\* C7: the POSTs issued are as many as the submissions of a non-blank value,
\* and no step that handles a response or a failure issues one.
C7_OneRequestPerSubmission ==
    /\ [](Len(requests) = nValid)
    /\ [][lastEvent'.kind \in {"headers", "network", "body"}
            => requests' = requests]_vars

\* Two requests were issued by two submissions, both have been processed,
\* the last one as a network failure, and there are still two.
C7_Witness ==
    /\ nValid = 2
    /\ Len(requests) = 2
    /\ Pending = {}
    /\ lastEvent.kind = "network"
    /\ status.type = "error"

\* C8: a submission of a non-blank value sets the status to pending with the
\* advisory message in the step that issues its request, and the step that
\* processes the outcome of a request sets it to success or error.
C8_PendingThenSettled ==
    [][/\ (Submitted' /\ ~IsBlank(inputValue'))
            => /\ status' = [message |-> PendingMessage, type |-> "pending"]
               /\ Len(requests') = Len(requests) + 1
       /\ Processed' => status'.type \in {"success", "error"}]_vars

\* A response was processed while another request was pending, and the
\* status is success.
C8_Witness ==
    /\ Processed
    /\ Pending # {}
    /\ status.type = "success"

\* The step that led to this state ended a submission in a failure.
Failed ==
    \/ Submitted /\ IsBlank(inputValue)
    \/ lastEvent.kind = "network"
    \/ lastEvent.kind = "body" /\ (~lastEvent.ok \/ lastEvent.body.kind = "invalid")

\* C9: every failure leaves the status at type error with a non-empty
\* message, and in every state a submission of a non-blank value is accepted
\* and issues a request (as long as the model's bound on requests allows one).
C9_FailureLeavesUiReady ==
    /\ [](Failed => status.type = "error" /\ status.message # "")
    /\ [](Len(requests) < MaxCalls
            => ENABLED (/\ handleSubmit(<<"a">>)
                        /\ Len(requests') = Len(requests) + 1))

\* A request failed with an exception that carries no message; the status
\* shows the generic message and a further request can be issued.
C9_Witness ==
    /\ lastEvent.kind = "network"
    /\ lastEvent.message = ""
    /\ status.type = "error"
    /\ status.message # ""
    /\ Len(requests) < MaxCalls

\* C10: a network failure, or a 2xx response whose body is not JSON, sets the
\* status to type error with the exception's message, or "Something went
\* wrong." when the exception has none, and leaves the result area alone.
C10_TransportErrorCaught ==
    [][/\ lastEvent'.kind = "network"
            => /\ status' = [message |-> IF lastEvent'.message # ""
                                         THEN lastEvent'.message
                                         ELSE "Something went wrong.",
                             type |-> "error"]
               /\ result' = result
       /\ (/\ lastEvent'.kind = "body"
           /\ lastEvent'.ok
           /\ lastEvent'.body.kind = "invalid")
            => /\ status' = [message |-> JsonSyntaxError, type |-> "error"]
               /\ result' = result]_vars

\* A 2xx response with a body that is not JSON was processed while the card
\* of an earlier response was shown; the card is still there.
C10_Witness ==
    /\ lastEvent.kind = "body"
    /\ lastEvent.ok
    /\ lastEvent.body.kind = "invalid"
    /\ status = [message |-> JsonSyntaxError, type |-> "error"]
    /\ Len(result) = 1

\* The step that led to this state processed a 2xx response whose body is
\* JSON but is no DownloadResult: null, or an object without download_url.
UnrenderableProcessed ==
    /\ lastEvent.kind = "body"
    /\ lastEvent.ok
    /\ \/ lastEvent.body.kind = "null"
       \/ lastEvent.body.kind = "object" /\ ~lastEvent.body.hasUrl

\* C13: a 2xx response whose body is JSON but cannot be rendered as a
\* DownloadResult leaves the result area as it was and the status at type
\* error.
C13_FailedRenderLeavesNothing ==
    [][UnrenderableProcessed'
         => /\ result' = result
            /\ status'.type = "error"]_vars

\* C14: whenever the status type is success, the result area shows one card.
C14_SuccessShowsResult ==
    status.type = "success" => Len(result) = 1

\* C15: whenever the status type is pending the result area is empty, and
\* every step that processes the outcome of a request leaves a status that
\* is not pending.
C15_PendingMeansEmpty ==
    /\ status.type = "pending" => result = <<>>
    /\ Processed => status.type # "pending"

\* The card of a first 2xx response was emptied by a second submission, whose
\* response headers have arrived: the status is pending, the area empty.
C15_Witness ==
    /\ status.type = "pending"
    /\ result = <<>>
    /\ lastEvent.kind = "headers"
    /\ lastEvent.id = 2
    /\ calls[1].pc = "done"
    /\ calls[1].ok

OriginByHostname ==
    IF hostname \in {"localhost", "127.0.0.1", "0.0.0.0"}
    THEN <<"h","t","t","p",":","/","/","l","o","c","a","l","h","o","s","t",
           ":","8","0","0","0">>
    ELSE ProductionOrigin

\* C11: the origin of the download request, and of every request the
\* dashboard has sent to /api/hello and /api/weather, is the local one on a
\* loopback hostname and the production one on any other.
C11_OriginFollowsHostname ==
    /\ BACKEND_URL = OriginByHostname
    /\ \A i \in 1..Len(dashboard.gets) :
         dashboard.gets[i].origin = OriginByHostname

\* loadDashboardData has finished after a 2xx /api/hello whose body parsed.
HelloSucceeded ==
    /\ dashboard.pc = "done"
    /\ dashboard.helloOk
    /\ dashboard.helloData.kind \in {"null", "object"}

\* The weather part C12 states: the details only for a 2xx weather response
\* whose body parsed, the placeholder otherwise.
WeatherAsStated ==
    /\ dashboard.display.weather \in {"details", "placeholder"}
    /\ dashboard.display.weather = "details"
         => /\ dashboard.weather.kind = "http"
            /\ dashboard.weather.ok
            /\ dashboard.weather.body \in {"null", "object"}
    /\ ~(/\ dashboard.weather.kind = "http"
         /\ dashboard.weather.ok
         /\ dashboard.weather.body \in {"null", "object"})
         => dashboard.display.weather = "placeholder"

\* C12 as stated: after a 2xx /api/hello whose body parsed, the dashboard
\* shows the greeting and not the error block, whatever became of
\* /api/weather; the weather details only for a 2xx weather response whose
\* body parsed, the placeholder otherwise.
C12_GreetingSurvivesWeather ==
    HelloSucceeded =>
        /\ dashboard.display.kind = "greeting"
        /\ WeatherAsStated

\* C12 as amended: the same, for a /api/hello body that parsed to an object.
C12_ObjectGreetingSurvivesWeather ==
    (HelloSucceeded /\ dashboard.helloData.kind = "object") =>
        /\ dashboard.display.kind = "greeting"
        /\ WeatherAsStated

\* The greeting is shown with the placeholder after the weather fetch was
\* rejected.
C12_Witness ==
    /\ HelloSucceeded
    /\ dashboard.helloData.hasMessage
    /\ dashboard.weather.kind = "network"
    /\ dashboard.display =
         Display("greeting", "Hello from the backend", "placeholder")

====
